---- MODULE Spec2Model ----
(***************************************************************************)
(* Model of week06/gae/project9/lmsdatastore.py: the data-access layer     *)
(* that maps users, courses, lessons and completions onto the datastore.   *)
(*                                                                         *)
(* The datastore is one variable, store: a function from complete keys to  *)
(* property maps.  A key is its path, a sequence of [kind, name, id]       *)
(* elements (the parent's path first); name = "" and id = 0 in the last    *)
(* element make the key partial.  Every handler is a pure operator from    *)
(* the store and its arguments to [exc, value, store]; the actions apply   *)
(* them, whole (sequential callers, SeqSpec) or one datastore round trip   *)
(* at a time (concurrent callers, Spec).                                   *)
(***************************************************************************)
EXTENDS Integers, Sequences, FiniteSets, TLC

VARIABLES store, calls, recorded, last

vars == <<store, calls, recorded, last>>

(***************************************************************************)
(* Bounds and input sets                                                   *)
(***************************************************************************)
\* ids the datastore may generate for a partial key
MaxAutoId == 2

USER_ENTITY == "LmsUser"

COURSE_ENTITY == "LmsCourse"

LESSON_ENTITY == "LmsLesson"

\* lmsdata.User(username, email, about)
User(username, email, about) ==
    [username |-> username, email |-> email, about |-> about]

\* lmsdata.Lesson(lesson_id, title, content)
Lesson(lesson_id, title, content) ==
    [id |-> lesson_id, title |-> title, content |-> content]

\* lmsdata.Course(code, name, desc, lessons)
Course(code, name, desc, lessons) ==
    [code |-> code, name |-> name, description |-> desc, lessons |-> lessons]

\* the (user, passwordhash) pairs handed to save_user by sequential callers
SaveUserInputs ==
    { <<User("testuser", "e1", ""), "h1">>,
      <<User("", "e1", ""), "h1">>,
      <<User("", "e1", ""), "h2">> }

Usernames == {"", "testuser", "u2"}

Hashes == {"", "h1", "h2"}

Abouts == {"a"}

\* the (coursecode, lessonid) pairs of the lessons marked complete
LessonRequests == { <<"Course01", 1>>, <<"Course01", 2>>, <<"Course02", 1>> }

\* the (username, coursecode, lessonid) triples handed to save_completion;
\* lesson ids are ids the datastore generated, so they are positive
SaveCompletionInputs ==
    { <<"testuser", "Course01", 1>>, <<"testuser", "Course01", 2>>,
      <<"testuser", "Course02", 1>>, <<"testuser", "", 1>>,
      <<"", "Course01", 1>> }

\* the course codes handed to load_course
CourseCodes == {"", "Course01", "Course02", "Course03"}

\* the (course_code, lesson_id) pairs handed to load_lesson
LoadLessonInputs ==
    { <<"Course01", 1>>, <<"Course01", 3>>, <<"Course03", 1>>,
      <<"", 1>>, <<"Course02", 0>> }

\* the (username, passwordhash) pairs handed to load_user
LoadUserInputs ==
    { <<"testuser", "">>, <<"testuser", "h1">>, <<"testuser", "h2">>,
      <<"u2", "h2">>, <<"", "h1">> }

\* the ids the datastore generates for the four lessons of a create_data
\* call: Course01's two, then Course02's two
SeedIds == { <<1, 2, 1, 2>>, <<2, 1, 2, 1>>, <<3, 4, 3, 4>> }

\* the callers of the concurrent specification and what they pass
Procs == {"p1", "p2"}

ConcSaveUserInputs == { <<User("testuser", "", ""), "">> }

ConcUsernames == {"testuser"}

ConcLessonRequests == { <<"Course01", 1>>, <<"Course02", 1>> }

\* the ids the datastore generates for the lessons put by concurrent callers
ConcLessonIds == {1, 2, 3, 4}

(***************************************************************************)
(* Python values and datastore keys                                        *)
(***************************************************************************)
\* a str or int identifier; "" and 0 are the falsy ones
StrId(s) == [name |-> s, id |-> 0]

IntId(n) == [name |-> "", id |-> n]

Truthy(x) == x.name # "" \/ x.id # 0

\* parent_key=None
NoParent == << >>

\* the key a raising client.key() call leaves behind
BadKey == << [kind |-> "ValueError", name |-> "", id |-> 0] >>

IsPartial(key) == key # << >> /\ key # BadKey /\ ~Truthy(key[Len(key)])

\* client.key(kind, id_or_name, parent=parent): a partial parent raises
ClientKey(kind, ident, parent) ==
    IF parent = BadKey \/ IsPartial(parent)
      THEN BadKey
      ELSE parent \o << [kind |-> kind, name |-> ident.name, id |-> ident.id] >>

\* key.parent, key.name, key.id
KeyParent(key) == SubSeq(key, 1, Len(key) - 1)

KeyName(key) == key[Len(key)].name

KeyId(key) == key[Len(key)].id

KeyKind(key) == key[Len(key)].kind

\* the key the datastore gives an entity put under a partial key
Complete(key, newid) ==
    [key EXCEPT ![Len(key)] = [kind |-> KeyKind(key), name |-> "", id |-> newid]]

None == [key |-> << >>, props |-> [none |-> TRUE]]

IsNone(e) == e.key = << >>

Entity(key, props) == [key |-> key, props |-> props]

\* client.get(key): the entity, None, or an error for a key that is not complete
Get(s, key) ==
    IF key = BadKey \/ key = << >> \/ IsPartial(key)
      THEN [exc |-> TRUE, entity |-> None]
      ELSE IF key \in DOMAIN s
             THEN [exc |-> FALSE, entity |-> Entity(key, s[key])]
             ELSE [exc |-> FALSE, entity |-> None]

\* an id the datastore may generate for key: positive, and not in use
Unused(s, key, i) == i > 0 /\ Complete(key, i) \notin DOMAIN s

\* the ids the datastore can give an entity put under this key
NewIds(s, key) ==
    IF IsPartial(key)
      THEN { i \in 1..MaxAutoId : Unused(s, key, i) }
      ELSE {0}

\* client.put(entity): create or replace by key; a partial key gets newid
Put(s, entity, newid) ==
    LET k == IF IsPartial(entity.key) THEN Complete(entity.key, newid)
                                      ELSE entity.key
    IN  (k :> entity.props) @@ s

(***************************************************************************)
(* lmsdatastore.py, helpers                                                *)
(***************************************************************************)
_load_key(entity_type, entity_id, parent_key) ==
    IF Truthy(entity_id)
      THEN ClientKey(entity_type, entity_id, parent_key)
      ELSE ClientKey(entity_type, StrId(""), NoParent)

_load_entity(s, entity_type, entity_id, parent_key) ==
    Get(s, _load_key(entity_type, entity_id, parent_key))

_course_from_entity(course_entity) ==
    Course(KeyName(course_entity.key), course_entity.props.name,
           course_entity.props.description, << >>)

_lesson_from_entity(lesson_entity, include_content) ==
    Lesson(KeyId(lesson_entity.key), lesson_entity.props.title,
           IF include_content THEN lesson_entity.props.content ELSE "")

(***************************************************************************)
(* lmsdatastore.py, the load operations.  Each returns [exc, value]: exc   *)
(* is TRUE when the call ends in an exception.                             *)
(***************************************************************************)
Raised == [exc |-> TRUE, value |-> None]

Returned(v) == [exc |-> FALSE, value |-> v]

\* the keys of S in key order (ids ascending), as query.fetch() yields them
RECURSIVE KeyOrder(_)
KeyOrder(S) ==
    IF S = {} THEN << >>
    ELSE LET k == CHOOSE k \in S : \A j \in S : KeyId(k) <= KeyId(j)
         IN  << k >> \o KeyOrder(S \ {k})

\* client.query(kind=kind, ancestor=ancestor).fetch()
QueryAncestor(s, kind, ancestor) ==
    KeyOrder({ k \in DOMAIN s :
                 /\ KeyKind(k) = kind
                 /\ Len(k) >= Len(ancestor)
                 /\ SubSeq(k, 1, Len(ancestor)) = ancestor })

\* query with the two equality filters of load_user
QueryUser(s, username, passwordhash) ==
    KeyOrder({ k \in DOMAIN s :
                 /\ KeyKind(k) = USER_ENTITY
                 /\ s[k].username = username
                 /\ s[k].passwordhash = passwordhash })

load_course(s, course_code) ==
    LET f == _load_entity(s, COURSE_ENTITY, StrId(course_code), NoParent)
    IN  IF f.exc \/ IsNone(f.entity) THEN Raised
        ELSE LET course == _course_from_entity(f.entity)
                 found == QueryAncestor(s, LESSON_ENTITY, f.entity.key)
             IN  Returned([course EXCEPT !.lessons =
                    [i \in 1..Len(found) |->
                       _lesson_from_entity(Entity(found[i], s[found[i]]), FALSE)]])

\* the key load_lesson fetches (lines 118-119)
load_lesson_key(course_code, lesson_id) ==
    _load_key(LESSON_ENTITY, IntId(lesson_id),
              _load_key(COURSE_ENTITY, StrId(course_code), NoParent))

load_lesson(s, course_code, lesson_id) ==
    LET parent_key == _load_key(COURSE_ENTITY, StrId(course_code), NoParent)
        f == _load_entity(s, LESSON_ENTITY, IntId(lesson_id), parent_key)
    IN  IF f.exc \/ IsNone(f.entity) THEN Raised
        ELSE Returned(_lesson_from_entity(f.entity, TRUE))

load_user(s, username, passwordhash) ==
    LET found == QueryUser(s, username, passwordhash)
    IN  IF found = << >> THEN Returned(None)
        ELSE Returned(User(s[found[1]].username, s[found[1]].email,
                           s[found[1]].about))

load_about_user(s, username) ==
    LET f == _load_entity(s, USER_ENTITY, StrId(username), NoParent)
    IN  IF f.exc THEN Raised
        ELSE IF ~IsNone(f.entity) THEN Returned(f.entity.props.about)
        ELSE Returned("")

\* variant: courses[code] is made anew for every completion
DictSet_anew(courses, code, id, title) ==
    (code :> (id :> title)) @@ courses

\* courses[code][completion.id] = title, creating courses[code] when absent
DictSet(courses, code, id, title) ==
    LET inner == IF code \in DOMAIN courses THEN courses[code] ELSE << >>
    IN  (code :> ((id :> title) @@ inner)) @@ courses

\* the loop of load_completions from the i-th completion on
RECURSIVE CompletionsLoop(_, _, _, _)
CompletionsLoop(s, completions, i, courses) ==
    IF i > Len(completions) THEN Returned(courses)
    ELSE LET completion == completions[i]
             lesson == Get(s, completion)
             course == Get(s, KeyParent(completion))
         IN  IF \/ lesson.exc \/ IsNone(lesson.entity)
                \/ course.exc \/ IsNone(course.entity)
               THEN Raised
               ELSE CompletionsLoop(s, completions, i + 1,
                      DictSet(courses, KeyName(course.entity.key),
                              KeyId(completion), lesson.entity.props.title))

load_completions(s, username) ==
    LET f == _load_entity(s, USER_ENTITY, StrId(username), NoParent)
    IN  IF f.exc \/ IsNone(f.entity) THEN Raised
        ELSE CompletionsLoop(s, f.entity.props.completions, 1, << >>)

(***************************************************************************)
(* lmsdatastore.py, the save operations.  Each returns [exc, store].       *)
(***************************************************************************)
Failed(s) == [exc |-> TRUE, store |-> s]

Saved(s) == [exc |-> FALSE, store |-> s]

\* the entity save_user builds (lines 176-181)
save_user_entity(user, passwordhash) ==
    Entity(_load_key(USER_ENTITY, StrId(user.username), NoParent),
           [username |-> user.username, email |-> user.email,
            passwordhash |-> passwordhash, about |-> "",
            completions |-> << >>])

save_user(s, user, passwordhash, newid) ==
    Saved(Put(s, save_user_entity(user, passwordhash), newid))

\* variant: the record is rebuilt around the new text, without its passwordhash
save_about_user_update_rebuilt(user, about) ==
    [user EXCEPT !.props = [username |-> @.username, email |-> @.email,
                            passwordhash |-> "", about |-> about,
                            completions |-> @.completions]]

\* variant: the completions are reset, as save_user resets them
save_about_user_update_reset(user, about) ==
    [user EXCEPT !.props.about = about, !.props.completions = << >>]

\* user['about'] = about (line 190)
save_about_user_update(user, about) ==
    [user EXCEPT !.props.about = about]

\* variant: a missing user is created (upsert)
save_about_user_upsert(s, username, about) ==
    LET f == _load_entity(s, USER_ENTITY, StrId(username), NoParent)
        created == Entity(_load_key(USER_ENTITY, StrId(username), NoParent),
                          [username |-> username, email |-> "",
                           passwordhash |-> "", about |-> about,
                           completions |-> << >>])
    IN  IF f.exc THEN Failed(s)
        ELSE IF IsNone(f.entity) THEN Saved(Put(s, created, 0))
        ELSE Saved(Put(s, save_about_user_update(f.entity, about), 0))

save_about_user(s, username, about) ==
    LET f == _load_entity(s, USER_ENTITY, StrId(username), NoParent)
    IN  IF f.exc \/ IsNone(f.entity) THEN Failed(s)
        ELSE Saved(Put(s, save_about_user_update(f.entity, about), 0))

\* the lesson key save_completion builds (lines 199-200)
save_completion_key(coursecode, lessonid) ==
    _load_key(LESSON_ENTITY, IntId(lessonid),
              _load_key(COURSE_ENTITY, StrId(coursecode), NoParent))

\* variant: the append without the membership test
save_completion_update_always(user_entity, lesson_key) ==
    [user_entity EXCEPT !.props.completions = Append(@, lesson_key)]

\* the de-duplicated append (lines 202-206)
save_completion_update(user_entity, lesson_key) ==
    LET completions == { user_entity.props.completions[i] :
                           i \in 1..Len(user_entity.props.completions) }
    IN  IF lesson_key \notin completions
          THEN [user_entity EXCEPT !.props.completions = Append(@, lesson_key)]
          ELSE user_entity

save_completion(s, username, coursecode, lessonid) ==
    LET lesson_key == save_completion_key(coursecode, lessonid)
        f == _load_entity(s, USER_ENTITY, StrId(username), NoParent)
    IN  IF lesson_key = BadKey \/ f.exc \/ IsNone(f.entity) THEN Failed(s)
        ELSE Saved(Put(s, save_completion_update(f.entity, lesson_key), 0))

\* the partial key of a lesson put under a course (lines 261-263)
create_data_lesson_key(code) ==
    ClientKey(LESSON_ENTITY, StrId(""),
              ClientKey(COURSE_ENTITY, StrId(code), NoParent))

\* the datastore can generate ids[1..4], in this order, for the four lessons
\* create_data puts on store s: each is unused when its lesson is put
create_data_ids(s, ids) ==
    /\ Unused(s, create_data_lesson_key("Course01"), ids[1])
    /\ Unused(s, create_data_lesson_key("Course01"), ids[2])
    /\ ids[2] # ids[1]
    /\ Unused(s, create_data_lesson_key("Course02"), ids[3])
    /\ Unused(s, create_data_lesson_key("Course02"), ids[4])
    /\ ids[4] # ids[3]

\* the entity of the n-th client.put of create_data (n = 1..7)
create_data_entity(n) ==
    CASE n = 1 ->
           Entity(ClientKey(USER_ENTITY, StrId("testuser"), NoParent),
                  [username |-> "testuser", passwordhash |-> "",
                   email |-> "", about |-> "", completions |-> << >>])
      [] n = 2 ->
           Entity(ClientKey(COURSE_ENTITY, StrId("Course01"), NoParent),
                  [code |-> "Course01", name |-> "First Course",
                   description |-> "This is a description for a test course.  In the future, real courses will have lots of other stuff here to see that will tell you more about their content."])
      [] n = 3 ->
           Entity(ClientKey(COURSE_ENTITY, StrId("Course02"), NoParent),
                  [code |-> "Course02", name |-> "Second Course",
                   description |-> "This is also a course description, but maybe less wordy than the previous one."])
      [] n = 4 ->
           Entity(create_data_lesson_key("Course01"),
                  [title |-> "Lesson 1: The First One",
                   content |-> "Imagine there were lots of video content and cool things."])
      [] n = 5 ->
           Entity(create_data_lesson_key("Course01"),
                  [title |-> "Lesson 2: Another One",
                   content |-> "1<br>2<br>3<br>4<br>5<br>6<br>7<br>8<br>9<br>10<br>11"])
      [] n = 6 ->
           Entity(create_data_lesson_key("Course02"),
                  [title |-> "Lesson 1: The First One, a Second Time",
                   content |-> "<p>Things</p><p>Other Things</p><p>Still More Things</p>"])
      [] n = 7 ->
           Entity(create_data_lesson_key("Course02"),
                  [title |-> "Lesson 2: Yes, Another One",
                   content |-> "<ul><li>a</li><li>b</li><li>c</li><li>d</li><li></ul>"])

\* the n-th client.put of create_data on store s; id is the id the datastore
\* generates for it (0 for the user and the courses, whose keys are complete)
create_data_put(s, n, id) == Put(s, create_data_entity(n), id)

\* create_data on store s, its seven puts in order; ids are the ids the
\* datastore generates for the four lessons
create_data(s, ids) ==
    LET s1 == create_data_put(s, 1, 0)
        s2 == create_data_put(s1, 2, 0)
        s3 == create_data_put(s2, 3, 0)
        s4 == create_data_put(s3, 4, ids[1])
        s5 == create_data_put(s4, 5, ids[2])
        s6 == create_data_put(s5, 6, ids[3])
    IN  create_data_put(s6, 7, ids[4])

(***************************************************************************)
(* State.  calls[p] is caller p's position inside save_about_user or       *)
(* save_completion (between its fetch and its put) with the entity it      *)
(* fetched, or inside create_data with the number of puts it has made;     *)
(* stale marks a fetched entity whose stored record has been put           *)
(* again since.  recorded[u] and last are history: the (coursecode,        *)
(* lessonid) pairs whose save_completion(u, ...) returned since u's record *)
(* was last made anew (by save_user, or by create_data for testuser), and  *)
(* what the last step did.                                                 *)
(***************************************************************************)
Idle ==
    [pc |-> "idle", username |-> "", entity |-> None, about |-> "",
     request |-> <<"", 0>>, lesson_key |-> << >>, stale |-> FALSE,
     put |-> 0]

\* what the last step did: the operation, whether it raised, its case, and
\* the username and the passwordhash or about text it was called with
Did(op, exc, case, username, arg) ==
    [op |-> op, exc |-> exc, case |-> case, username |-> username, arg |-> arg]

UserKey(username) == _load_key(USER_ENTITY, StrId(username), NoParent)

\* the lesson keys in the stored completions of the user record keyed username
StoredCompletions(s, username) ==
    IF UserKey(username) \in DOMAIN s
      THEN { s[UserKey(username)].completions[i] :
               i \in 1..Len(s[UserKey(username)].completions) }
      ELSE {}

EntityCompletions(e) ==
    { e.props.completions[i] : i \in 1..Len(e.props.completions) }

\* a put under key by caller p makes every other fetched copy of it stale
MarkStale(c, key, p) ==
    [q \in Procs |->
       IF q # p /\ c[q].pc # "idle" /\ c[q].entity.key = key
         THEN [c[q] EXCEPT !.stale = TRUE]
         ELSE c[q]]

Init ==
    /\ store = << >>
    /\ calls = [p \in Procs |-> Idle]
    /\ recorded = [u \in Usernames |-> {}]
    /\ last = Did("init", FALSE, "", "", "")

(***************************************************************************)
(* Whole handlers (a caller that is not interleaved with another)          *)
(***************************************************************************)
CallSaveUser(user, passwordhash) ==
    LET e == save_user_entity(user, passwordhash)
    IN  \E newid \in NewIds(store, e.key) :
          /\ store' = save_user(store, user, passwordhash, newid).store
          /\ calls' = MarkStale(calls, e.key, "")
          /\ recorded' = [recorded EXCEPT ![user.username] = {}]
          /\ last' = Did("save_user", FALSE, "", user.username, passwordhash)

CallSaveAboutUser(username, about) ==
    LET r == save_about_user(store, username, about)
    IN  /\ store' = r.store
        /\ calls' = IF r.exc THEN calls
                    ELSE MarkStale(calls, UserKey(username), "")
        /\ last' = Did("save_about_user", r.exc,
                       IF r.exc THEN "missing"
                       ELSE IF StoredCompletions(store, username) # {}
                              THEN "merge" ELSE "set",
                       username, about)
        /\ UNCHANGED recorded

CallSaveCompletion(username, coursecode, lessonid) ==
    LET r == save_completion(store, username, coursecode, lessonid)
        k == save_completion_key(coursecode, lessonid)
    IN  /\ store' = r.store
        /\ calls' = IF r.exc THEN calls
                    ELSE MarkStale(calls, UserKey(username), "")
        /\ recorded' = IF r.exc THEN recorded
                       ELSE [recorded EXCEPT ![username] =
                               @ \cup {<<coursecode, lessonid>>}]
        /\ last' = Did("save_completion", r.exc,
                       IF r.exc THEN "missing"
                       ELSE IF k \in StoredCompletions(store, username)
                              THEN "present" ELSE "append",
                       username, "")

CallCreateData(ids) ==
    /\ create_data_ids(store, ids)
    /\ store' = create_data(store, ids)
    /\ calls' = MarkStale(calls, UserKey("testuser"), "")
    /\ recorded' = [recorded EXCEPT !["testuser"] = {}]
    /\ last' = Did("create_data", FALSE,
                   IF StoredCompletions(store, "testuser") # {}
                     THEN "destroy" ELSE "put",
                   "testuser", "")

CallLoadCourse(course_code) ==
    /\ load_course(store, course_code).exc \in BOOLEAN
    /\ last' = Did("load", FALSE, "", "", "")
    /\ UNCHANGED <<store, calls, recorded>>

CallLoadLesson(course_code, lesson_id) ==
    /\ load_lesson(store, course_code, lesson_id).exc \in BOOLEAN
    /\ last' = Did("load", FALSE, "", "", "")
    /\ UNCHANGED <<store, calls, recorded>>

CallLoadUser(username, passwordhash) ==
    /\ load_user(store, username, passwordhash).exc \in BOOLEAN
    /\ last' = Did("load", FALSE, "", "", "")
    /\ UNCHANGED <<store, calls, recorded>>

CallLoadAboutUser(username) ==
    /\ load_about_user(store, username).exc \in BOOLEAN
    /\ last' = Did("load", FALSE, "", "", "")
    /\ UNCHANGED <<store, calls, recorded>>

CallLoadCompletions(username) ==
    /\ load_completions(store, username).exc \in BOOLEAN
    /\ last' = Did("load", FALSE, "", "", "")
    /\ UNCHANGED <<store, calls, recorded>>

(***************************************************************************)
(* The round trips of save_about_user and save_completion, one at a time   *)
(***************************************************************************)
FetchSaveAboutUser(p, username, about) ==
    LET f == _load_entity(store, USER_ENTITY, StrId(username), NoParent)
    IN  /\ calls[p].pc = "idle"
        /\ IF f.exc \/ IsNone(f.entity)
             THEN /\ last' = Did("save_about_user", TRUE, "missing", username, about)
                  /\ UNCHANGED calls
             ELSE /\ calls' = [calls EXCEPT ![p] =
                        [pc |-> "about", username |-> username,
                         entity |-> f.entity, about |-> about,
                         request |-> <<"", 0>>, lesson_key |-> << >>,
                         stale |-> FALSE, put |-> 0]]
                  /\ last' = Did("save_about_user", FALSE, "fetched", username, about)
        /\ UNCHANGED <<store, recorded>>

\* fresh, stale (another put came between), or lost (and it dropped a key)
PutCase(c, after) ==
    IF ~c.stale THEN "fresh"
    ELSE IF StoredCompletions(store, c.username) \ after # {} THEN "lost"
    ELSE IF /\ c.lesson_key \in StoredCompletions(store, c.username)
            /\ c.lesson_key \notin EntityCompletions(c.entity)
           THEN "same"
    ELSE "stale"

PutSaveAboutUser(p) ==
    LET c == calls[p]
        user == save_about_user_update(c.entity, c.about)
    IN  /\ c.pc = "about"
        /\ store' = Put(store, user, 0)
        /\ calls' = [MarkStale(calls, user.key, p) EXCEPT ![p] = Idle]
        /\ last' = Did("save_about_user", FALSE,
                       PutCase(c, EntityCompletions(user)), c.username, c.about)
        /\ UNCHANGED recorded

FetchSaveCompletion(p, username, coursecode, lessonid) ==
    LET lesson_key == save_completion_key(coursecode, lessonid)
        f == _load_entity(store, USER_ENTITY, StrId(username), NoParent)
    IN  /\ calls[p].pc = "idle"
        /\ IF lesson_key = BadKey \/ f.exc \/ IsNone(f.entity)
             THEN /\ last' = Did("save_completion", TRUE, "missing", username, "")
                  /\ UNCHANGED calls
             ELSE /\ calls' = [calls EXCEPT ![p] =
                        [pc |-> "completion", username |-> username,
                         entity |-> f.entity, about |-> "",
                         request |-> <<coursecode, lessonid>>,
                         lesson_key |-> lesson_key, stale |-> FALSE,
                         put |-> 0]]
                  /\ last' = Did("save_completion", FALSE, "fetched", username, "")
        /\ UNCHANGED <<store, recorded>>

\* variant: the put is made on the record as stored now (a transaction)
PutSaveCompletion_refetch(p) ==
    LET c == calls[p]
        user_entity == save_completion_update(
                         Entity(c.entity.key, store[c.entity.key]), c.lesson_key)
    IN  /\ c.pc = "completion"
        /\ store' = Put(store, user_entity, 0)
        /\ calls' = [MarkStale(calls, user_entity.key, p) EXCEPT ![p] = Idle]
        /\ recorded' = [recorded EXCEPT ![c.username] = @ \cup {c.request}]
        /\ last' = Did("save_completion", FALSE,
                       PutCase(c, EntityCompletions(user_entity)),
                       c.username, "")

\* variant: the key missing from the fetched list is appended to the stored one
PutSaveCompletion_append(p) ==
    LET c == calls[p]
        user_entity ==
          [key |-> c.entity.key,
           props |-> [store[c.entity.key] EXCEPT !.completions =
                        IF c.lesson_key \in EntityCompletions(c.entity)
                          THEN @ ELSE Append(@, c.lesson_key)]]
    IN  /\ c.pc = "completion"
        /\ store' = Put(store, user_entity, 0)
        /\ calls' = [MarkStale(calls, user_entity.key, p) EXCEPT ![p] = Idle]
        /\ recorded' = [recorded EXCEPT ![c.username] = @ \cup {c.request}]
        /\ last' = Did("save_completion", FALSE,
                       PutCase(c, EntityCompletions(user_entity)),
                       c.username, "")

PutSaveCompletion(p) ==
    LET c == calls[p]
        user_entity == save_completion_update(c.entity, c.lesson_key)
    IN  /\ c.pc = "completion"
        /\ store' = Put(store, user_entity, 0)
        /\ calls' = [MarkStale(calls, user_entity.key, p) EXCEPT ![p] = Idle]
        /\ recorded' = [recorded EXCEPT ![c.username] = @ \cup {c.request}]
        /\ last' = Did("save_completion", FALSE,
                       PutCase(c, EntityCompletions(user_entity)),
                       c.username, "")

(***************************************************************************)
(* The round trips of create_data, one client.put at a time                *)
(***************************************************************************)
\* the lessons a caller inside create_data has still to put under a course
PendingLessons(c, code) ==
    LET first == IF code = "Course01" THEN 4 ELSE 6
    IN  IF c.pc # "seed" THEN 0
        ELSE IF c.put < first THEN 2
        ELSE IF c.put = first THEN 1
        ELSE 0

\* the ids of ConcLessonIds still unused under a course
UnusedLessonIds(s, code) ==
    { i \in ConcLessonIds : Unused(s, create_data_lesson_key(code), i) }

\* the ids the datastore may generate for a lesson put under key: an unused
\* id, here one of the two smallest of ConcLessonIds (so ids need not come
\* in ascending order)
GeneratedLessonIds(s, key) ==
    LET unused == { i \in ConcLessonIds : Unused(s, key, i) }
    IN  { i \in unused : Cardinality({ j \in unused : j < i }) < 2 }

\* the bounded id set has ids left for two more lessons of each course,
\* beside those the callers inside create_data have still to put
SeedRoom ==
    \A code \in {"Course01", "Course02"} :
      \A q \in Procs :
        Cardinality(UnusedLessonIds(store, code)) >=
          2 + PendingLessons(calls[q], code)

\* the call and its first put, of the testuser record (line 231)
BeginCreateData(p) ==
    /\ calls[p].pc = "idle"
    /\ SeedRoom
    /\ store' = create_data_put(store, 1, 0)
    /\ calls' = [MarkStale(calls, UserKey("testuser"), p) EXCEPT ![p] =
                   [Idle EXCEPT !.pc = "seed", !.put = 1]]
    /\ recorded' = [recorded EXCEPT !["testuser"] = {}]
    /\ last' = Did("create_data", FALSE,
                   IF StoredCompletions(store, "testuser") # {}
                     THEN "destroy" ELSE "user",
                   "testuser", "")

\* the next put, of a course (lines 245, 257) or of a lesson under the id
\* the datastore generates for it (lines 271, 283, 297, 310)
PutCreateData(p, id) ==
    LET n == calls[p].put + 1
    IN  /\ calls[p].pc = "seed"
        /\ IF n <= 3 THEN id = 0
                      ELSE id \in GeneratedLessonIds(store, create_data_entity(n).key)
        /\ store' = create_data_put(store, n, id)
        /\ calls' = [calls EXCEPT ![p] =
                       IF n = 7 THEN Idle ELSE [@ EXCEPT !.put = n]]
        /\ last' = Did("create_data", FALSE, "put", "testuser", "")
        /\ UNCHANGED recorded

(***************************************************************************)
(* Specifications                                                          *)
(***************************************************************************)
\* concurrent callers: save_user, and the interleaved round trips of
\* save_about_user, save_completion and create_data
Next ==
    \/ \E in \in ConcSaveUserInputs : CallSaveUser(in[1], in[2])
    \/ \E p \in Procs, u \in ConcUsernames, a \in Abouts :
         FetchSaveAboutUser(p, u, a)
    \/ \E p \in Procs : PutSaveAboutUser(p)
    \/ \E p \in Procs, u \in ConcUsernames, r \in ConcLessonRequests :
         FetchSaveCompletion(p, u, r[1], r[2])
    \/ \E p \in Procs : PutSaveCompletion(p)
    \/ \E p \in Procs : BeginCreateData(p)
    \/ \E p \in Procs, id \in {0} \cup ConcLessonIds : PutCreateData(p, id)

Spec == Init /\ [][Next]_vars

\* sequential callers: every call runs to its end before the next starts
SeqNext ==
    \/ \E in \in SaveUserInputs : CallSaveUser(in[1], in[2])
    \/ \E u \in Usernames, a \in Abouts : CallSaveAboutUser(u, a)
    \/ \E in \in SaveCompletionInputs : CallSaveCompletion(in[1], in[2], in[3])
    \/ \E c \in CourseCodes : CallLoadCourse(c)
    \/ \E in \in LoadLessonInputs : CallLoadLesson(in[1], in[2])
    \/ \E in \in LoadUserInputs : CallLoadUser(in[1], in[2])
    \/ \E u \in Usernames : CallLoadAboutUser(u)
    \/ \E u \in Usernames : CallLoadCompletions(u)
    \/ \E ids \in SeedIds : CallCreateData(ids)

SeqSpec == Init /\ [][SeqNext]_vars

(***************************************************************************)
(* Properties of sequential calls (SeqSpec).  Each is stated of the call   *)
(* made in the current state, for every reachable state.                   *)
(***************************************************************************)
Count(seq, x) == Cardinality({ i \in 1..Len(seq) : seq[i] = x })

UserRecords(s) == { k \in DOMAIN s : KeyKind(k) = USER_ENTITY }

\* C1: save_completion is idempotent: when save_completion(username,
\* coursecode, lessonid) returns for an existing user, the same call made
\* again returns too, leaves the store as the first call left it, and the
\* user's stored completions hold that lesson key exactly once.
C1_SaveCompletionIdempotent ==
    \A u \in Usernames, r \in LessonRequests :
      LET first == save_completion(store, u, r[1], r[2])
          second == save_completion(first.store, u, r[1], r[2])
      IN  ~first.exc =>
            /\ ~second.exc
            /\ second.store = first.store
            /\ Count(second.store[UserKey(u)].completions,
                     save_completion_key(r[1], r[2])) = 1

\* a save_completion call has just returned for a lesson that an earlier
\* call with the same arguments had already recorded
C1_Witness ==
    /\ last.op = "save_completion" /\ ~last.exc /\ last.case = "present"
    /\ \E r \in LessonRequests :
         Count(store[UserKey("testuser")].completions,
               save_completion_key(r[1], r[2])) = 1

\* C6: load_course of a missing course, load_lesson of a missing lesson and
\* save_about_user of a missing user end in an error, and the failed
\* save_about_user leaves the store as it was (no user is created).
C6_MissingKeyFails ==
    /\ \A c \in CourseCodes :
         _load_key(COURSE_ENTITY, StrId(c), NoParent) \notin DOMAIN store
            => load_course(store, c).exc
    /\ \A in \in LoadLessonInputs :
         load_lesson_key(in[1], in[2]) \notin DOMAIN store
            => load_lesson(store, in[1], in[2]).exc
    /\ \A u \in Usernames, a \in Abouts :
         UserKey(u) \notin DOMAIN store
            => /\ save_about_user(store, u, a).exc
               /\ save_about_user(store, u, a).store = store

\* save_about_user has just failed on a user that has no record
C6_Witness ==
    /\ last.op = "save_about_user" /\ last.exc /\ last.case = "missing"
    /\ UserKey("u2") \notin DOMAIN store
    /\ load_course(store, "Course03").exc
    /\ load_lesson(store, "Course01", 3).exc

\* C7: save_about_user merges: when it returns, the user's record has the
\* new about text and its other fields as before, and no other record of
\* the store has changed or appeared.
C7_SaveAboutUserMerges ==
    \A u \in Usernames, a \in Abouts \cup {"", "b"} :
      LET r == save_about_user(store, u, a)
      IN  ~r.exc =>
            /\ DOMAIN r.store = DOMAIN store
            /\ r.store[UserKey(u)].about = a
            /\ r.store[UserKey(u)].username = store[UserKey(u)].username
            /\ r.store[UserKey(u)].email = store[UserKey(u)].email
            /\ r.store[UserKey(u)].passwordhash = store[UserKey(u)].passwordhash
            /\ r.store[UserKey(u)].completions = store[UserKey(u)].completions
            /\ \A k \in DOMAIN store : k # UserKey(u) => r.store[k] = store[k]

\* save_about_user has just returned for a user with a password hash and
\* recorded completions, beside another user's record
C7_Witness ==
    /\ last.op = "save_about_user" /\ ~last.exc /\ last.case = "merge"
    /\ store[UserKey("testuser")].about = "a"
    /\ store[UserKey("testuser")].passwordhash = "h1"
    /\ Len(store[UserKey("testuser")].completions) = 2
    /\ UserRecords(store) \ {UserKey("testuser")} # {}

\* the (course code, lesson id, title) entries of a load_completions result
Entries(courses) ==
    UNION { { <<c, i, courses[c][i]>> : i \in DOMAIN courses[c] } :
            c \in DOMAIN courses }

\* C5: after N >= 1 save_completion calls with pairwise distinct
\* (coursecode, lessonid) pairs have returned for a user since its record
\* was created, and the lessons and their courses have stored records,
\* load_completions returns a mapping with exactly N entries: one per pair,
\* under that course code and lesson id, with the stored lesson's title.
C5_LoadCompletionsEntries ==
    \A u \in Usernames :
      ( /\ recorded[u] # {}
        /\ \A r \in recorded[u] :
             /\ save_completion_key(r[1], r[2]) \in DOMAIN store
             /\ KeyParent(save_completion_key(r[1], r[2])) \in DOMAIN store )
      => LET res == load_completions(store, u)
         IN  /\ ~res.exc
             /\ Entries(res.value) =
                  { <<r[1], r[2], store[save_completion_key(r[1], r[2])].title>> :
                    r \in recorded[u] }
             /\ Cardinality(Entries(res.value)) = Cardinality(recorded[u])

\* a user created by save_user has three lessons of two courses recorded
\* and load_completions has run
C5_Witness ==
    /\ last.op = "load" /\ ~last.exc /\ last.case = ""
    /\ UserKey("testuser") \in DOMAIN store
    /\ store[UserKey("testuser")].passwordhash = "h1"
    /\ recorded["testuser"] = LessonRequests
    /\ ~load_completions(store, "testuser").exc
    /\ Cardinality(Entries(load_completions(store, "testuser").value)) = 3

\* C3: after save_user(user, passwordhash) every stored record with that
\* username has about = "" and completions = [], one of them has the email
\* and passwordhash given, load_about_user(user.username) returns "" and
\* load_completions(user.username) returns the empty mapping.
C3_SaveUserReplaces ==
    /\ \A in \in SaveUserInputs :
         \A newid \in NewIds(store, save_user_entity(in[1], in[2]).key) :
           LET after == save_user(store, in[1], in[2], newid).store
               u == in[1].username
               mine == { k \in UserRecords(after) : after[k].username = u }
           IN  /\ \A k \in mine :
                    after[k].about = "" /\ after[k].completions = << >>
               /\ \E k \in mine :
                    /\ after[k].email = in[1].email
                    /\ after[k].passwordhash = in[2]
    /\ last.op = "save_user" =>
         /\ load_about_user(store, last.username) = Returned("")
         /\ load_completions(store, last.username) = Returned(<< >>)

\* C3 for the usernames that make a complete key (non-empty): it holds
C3_NonEmptyUsername ==
    \A in \in SaveUserInputs :
      in[1].username # "" =>
        LET after == save_user(store, in[1], in[2], 0).store
            u == in[1].username
        IN  /\ after[UserKey(u)] =
                 [username |-> u, email |-> in[1].email,
                  passwordhash |-> in[2], about |-> "",
                  completions |-> << >>]
            /\ load_about_user(after, u) = Returned("")
            /\ load_completions(after, u) = Returned(<< >>)

\* C4: load_user returns a user only when a stored user record has that
\* username and that passwordhash, the user returned carries username,
\* email and about only, and right after save_user(user, passwordhash)
\* load_user(user.username, h) returns None for every other hash h.
C4_LoadUserNeedsBoth ==
    /\ \A u \in Usernames, h \in Hashes :
         LET r == load_user(store, u, h)
         IN  /\ ~r.exc
             /\ r.value # None =>
                  /\ \E k \in UserRecords(store) :
                       store[k].username = u /\ store[k].passwordhash = h
                  /\ DOMAIN r.value = {"username", "email", "about"}
    /\ last.op = "save_user" =>
         \A h \in Hashes :
           h # last.arg => load_user(store, last.username, h).value = None

\* C4 for the usernames that make a complete key (non-empty): it holds
C4_NonEmptyUsername ==
    \A in \in SaveUserInputs, h \in Hashes :
      (in[1].username # "" /\ h # in[2]) =>
        load_user(save_user(store, in[1], in[2], 0).store,
                  in[1].username, h).value = None

\* C8: the store holds at most one LmsUser record per username, and that
\* record's key identifier is the username itself.
C8_OneRecordPerUsername ==
    \A k1 \in UserRecords(store), k2 \in UserRecords(store) :
      /\ KeyName(k1) = store[k1].username
      /\ KeyId(k1) = 0
      /\ store[k1].username = store[k2].username => k1 = k2

\* C8 for the usernames that make a complete key (non-empty): it holds
C8_NonEmptyUsername ==
    \A k1 \in UserRecords(store), k2 \in UserRecords(store) :
      store[k1].username # "" =>
        /\ KeyName(k1) = store[k1].username
        /\ KeyId(k1) = 0
        /\ store[k1].username = store[k2].username => k1 = k2

(***************************************************************************)
(* Properties of concurrent calls (Spec)                                   *)
(***************************************************************************)
AllReturned == \A p \in Procs : calls[p] = Idle

\* C2: save_completion is not atomic: its put stores the completions the
\* call fetched plus its own lesson key, whatever has been stored since the
\* fetch, so a key another caller stored between the fetch and the put is
\* lost once both calls have returned.
C2_PutStoresFetchedCopy ==
    [][ \A p \in Procs :
          (calls[p].pc = "completion" /\ calls'[p].pc = "idle") =>
            StoredCompletions(store', calls[p].username) =
              EntityCompletions(calls[p].entity) \cup {calls[p].lesson_key}
      ]_vars

\* two save_completion calls for the same user with different lessons have
\* both returned and the stored completions hold only one of the two keys
C2_Witness ==
    /\ AllReturned
    /\ last.op = "save_completion" /\ ~last.exc /\ last.case = "lost"
    /\ recorded["testuser"] = ConcLessonRequests
    /\ Cardinality(StoredCompletions(store, "testuser")) = 1

\* C9: no stored user record's completions list holds a lesson key twice,
\* in any state reachable by interleaving save_user with the fetch and put
\* steps of save_about_user and save_completion.
C9_NoDuplicateCompletion ==
    \A k \in UserRecords(store) :
      \A i \in 1..Len(store[k].completions), j \in 1..Len(store[k].completions) :
        store[k].completions[i] = store[k].completions[j] => i = j

\* two overlapping save_completion calls for the same user and lesson have
\* both put: the second put came from a copy without the key, onto a record
\* that held it already
C9_Witness ==
    /\ AllReturned
    /\ last.op = "save_completion" /\ ~last.exc /\ last.case = "same"
    /\ Len(store[UserKey("testuser")].completions) = 1

\* C10 as amended: a lesson key leaves a user's stored completions only in
\* a save_user call for that username, in the first put of a create_data
\* call (for testuser, whose record it puts anew), or in the put of a
\* save_about_user
\* or save_completion call for that user whose fetched copy is stale (the
\* record was put again after the call fetched it).
C10_RemovedOnlyByReplaceOrStalePut ==
    [][ \A u \in Usernames :
          ~(StoredCompletions(store, u) \subseteq StoredCompletions(store', u))
          => \/ last'.op = "save_user" /\ last'.username = u
             \/ /\ last'.op = "create_data" /\ last'.case = "destroy"
                /\ u = "testuser"
             \/ \E p \in Procs :
                  /\ calls[p].pc # "idle" /\ calls'[p].pc = "idle"
                  /\ calls[p].username = u
                  /\ calls[p].stale
      ]_vars

\* a save_about_user call that fetched before a save_completion call put
\* has put its copy back, and the recorded completion is gone
C10_Witness ==
    /\ AllReturned
    /\ last.op = "save_about_user" /\ ~last.exc /\ last.case = "lost"
    /\ recorded["testuser"] # {}
    /\ StoredCompletions(store, "testuser") = {}

\* C10: once save_completion(username, coursecode, lessonid) has returned,
\* the lesson key stays in the stored completions of that user until
\* save_user is called for that username.
C10_CompletionStaysUntilSaveUser ==
    \A u \in Usernames :
      \A r \in recorded[u] :
        save_completion_key(r[1], r[2]) \in StoredCompletions(store, u)

====
